---------------------------- MODULE Spec2Model ----------------------------
(***************************************************************************)
(* SecureProxy client (src/SecureProxy/Python/client.py): the per-flow     *)
(* handlers handle_socks5 / handle_http, the admission semaphore, the      *)
(* tunnel establisher create_secure_connection with its nested timers,     *)
(* the relay supervisor and the process-wide counters.                     *)
(*                                                                         *)
(* Time is counted in whole seconds and only where timers nest (tunnel     *)
(* establishment): elapsed[f] is the age of the CONNECTION_TIMEOUT budget  *)
(* of flow f, waited[f] the age of the await the flow is suspended in.     *)
(* An await completes strictly before its own timeout, a step timeout      *)
(* fires when waited reaches it, and the budget fires when elapsed         *)
(* reaches CONNECTION_TIMEOUT (before anything else of that flow).         *)
(*                                                                         *)
(* Cancellation follows asyncio (Python >= 3.8): wait_for cancels the      *)
(* awaited coroutine by raising CancelledError at its current await;       *)
(* CancelledError is a BaseException, so "except Exception" and            *)
(* "except asyncio.TimeoutError" let it pass and a bare "except:" catches  *)
(* it.                                                                     *)
(***************************************************************************)
EXTENDS Integers, Sequences, FiniteSets, TLC

\* ------------------------------------------------------------------ bounds
\* Inbound connections the clients open during one run.
NumFlows == 2

\* client.py:45 sets 200; the gate is scaled so that NumFlows exceeds it.
MAX_CONCURRENT_CONNECTIONS == 1

\* Payload frames relayed per direction and flow.
MaxRelay == 2

\* Tunnel establishments counted while health_checker is observed.
MaxOutcomes == 3

\* Drains of the inbound write buffer counted in video_stream_stats.
MaxDrains == 1

\* health_failures grows as long as the failure rate stays high: checks observed
\* past FAILURE_THRESHOLD.
MaxHealthFailures == 12

\* --------------------------------------------------------- program constants
FAILURE_THRESHOLD == 10
MAX_RETRIES == 1
CONNECTION_TIMEOUT == 5
CONNECT_TIMEOUT == 3
HANDSHAKE_TIMEOUT == 2
SEND_TIMEOUT == 10
\* timeout=2 of the three handshake receives (client.py:386, 399, 408)
KEY_RECV_TIMEOUT == 2
\* timeout=1 of wait_closed in VideoOptimizedWebSocket.close (client.py:348)
CLOSE_WAIT_TIMEOUT == 1
\* RETRY_DELAY = 0.1 s: the sleep crosses at most one whole-second boundary
RETRY_DELAY_CEIL == 1
\* len(server_pub) != 32 (client.py:388)
SERVER_PUB_LEN == 32
\* the ports the loop pre-check names literally (client.py:367)
LOOP_PORT_A == 1080
LOOP_PORT_B == 1081
\* WRITE_BUFFER_SIZE = 640 * 1024 (client.py:43)
WRITE_BUFFER_SIZE == 655360
\* DRAIN_THRESHOLD = 0.7 (client.py:57), in tenths
DRAIN_THRESHOLD_TENTHS == 7

Flow == 1 .. NumFlows

\* ------------------------------------------------------------------ strings
\* A string is the sequence of its characters.
LOCALHOST == <<"1", "2", "7", ".", "0", ".", "0", ".", "1">>
EXAMPLE == <<"e", "x", "a", "m", "p", "l", "e", ".", "c", "o", "m">>
COLON == <<":">>

DigitChar(d) ==
    CASE d = 0 -> "0" [] d = 1 -> "1" [] d = 2 -> "2" [] d = 3 -> "3"
      [] d = 4 -> "4" [] d = 5 -> "5" [] d = 6 -> "6" [] d = 7 -> "7"
      [] d = 8 -> "8" [] d = 9 -> "9"

\* str(n) of a non-negative int: its decimal digits, most significant first.
RECURSIVE Str(_)
Str(n) == IF n < 10 THEN <<DigitChar(n)>> ELSE Str(n \div 10) \o <<DigitChar(n % 10)>>

\* s.startswith(p)
StartsWith(s, p) == Len(p) <= Len(s) /\ SubSeq(s, 1, Len(p)) = p

\* f"{addr}:{port}" (client.py:544) and f"{host}:{port}" (client.py:618)
TargetOf(host, portstr) == host \o COLON \o portstr

\* ------------------------------------------------------------------- inputs
\* Configurations the process may be started with (socks_port, http_port).
Configs ==
    { [socks_port |-> 1080, http_port |-> 1081],
      [socks_port |-> 2080, http_port |-> 2081] }

\* (host, port) pairs the inbound clients ask for.
Requests ==
    { <<LOCALHOST, 1080>>, <<LOCALHOST, 2080>>, <<EXAMPLE, 443>> }

\* The proxy's own listener addresses under a configuration (start_servers).
OwnListeners(cfg) ==
    { TargetOf(LOCALHOST, Str(cfg.socks_port)), TargetOf(LOCALHOST, Str(cfg.http_port)) }

\* ------------------------------------------------------------ loop pre-check
\* target.startswith('127.0.0.1:1080') or target.startswith('127.0.0.1:1081')
IsProxyLoop(tgt) ==
    \/ StartsWith(tgt, TargetOf(LOCALHOST, Str(LOOP_PORT_A)))
    \/ StartsWith(tgt, TargetOf(LOCALHOST, Str(LOOP_PORT_B)))


\* first index of ":" in s (0 when there is none): ":" in s, s.split(":", 1)
FirstColon(s) ==
    IF \E i \in 1 .. Len(s) : s[i] = ":"
    THEN CHOOSE i \in 1 .. Len(s) : s[i] = ":" /\ \A j \in 1 .. (i - 1) : s[j] # ":"
    ELSE 0

\* handle_http: host_port -> target (default port "443")
HttpTarget(host_port) ==
    LET i == FirstColon(host_port) IN
    IF i > 0
    THEN TargetOf(SubSeq(host_port, 1, i - 1), SubSeq(host_port, i + 1, Len(host_port)))
    ELSE TargetOf(host_port, <<"4", "4", "3">>)

\* Request lines an HTTP client may send: method and parts[1] (<<>> when absent).
HttpLines ==
    { [method |-> "EOF", arg |-> <<>>], [method |-> "GET", arg |-> <<"/">>],
      [method |-> "CONNECT", arg |-> <<>>], [method |-> "CONNECT", arg |-> EXAMPLE] }
    \cup { [method |-> "CONNECT", arg |-> TargetOf(r[1], Str(r[2]))] : r \in Requests }

\* ------------------------------------------------ VideoOptimizedWebSocket
\* __init__: no transport yet (writer None), closed False; sent / rcvd record the
\* frames written to and read from the transport.
\* buffer holds the frames the transport has fed to the reader that recv() has
\* not returned yet.
NewWs == [writer |-> "none", closed |-> FALSE, sent |-> <<>>, rcvd |-> <<>>, buffer |-> <<>>]

\* close(): whether it goes past "if self.closed: return" to "if self.writer:"
\* and suspends in wait_closed.
WsCloseAwaits(w) == ~w.closed /\ w.writer # "none"

\* a close() that sets the flag and leaves the transport open
WsCloseFlagOnly(w) == [w EXCEPT !.closed = TRUE]

\* close(): closed = True, writer.close()
WsClose(w) ==
    IF w.closed THEN w
    ELSE [w EXCEPT !.closed = TRUE, !.writer = IF @ = "none" THEN "none" ELSE "closed"]

\* send(data): raises when closed, otherwise writes one frame
WsSend(w, frame) == [w EXCEPT !.sent = Append(@, frame)]

\* recv(): one frame read from the transport
WsRecv(w, frame) == [w EXCEPT !.rcvd = Append(@, frame)]

\* the transport feeds a frame's bytes to the reader, which wakes the recv()
\* suspended in readexactly
WsFeed(w, frame) == [w EXCEPT !.buffer = Append(@, frame)]

\* recv() woken in readexactly goes on to return the frame: the closed flag is
\* read on entry only (l.320)
WsRecvResumes(w) == w.buffer # <<>>

ClientFrame(tag, arg) == [frame |-> tag, arg |-> arg]

-----------------------------------------------------------------------------
VARIABLES
    current_config,         \* the configuration record (ports)
    connection_semaphore,   \* value of the asyncio.Semaphore
    active_connections, failed_connections, success_connections, timeout_connections,
    pc,                     \* per flow: where its handler is suspended
    kind,                   \* per flow: listener it arrived on
    data, line,             \* per flow: the header last read by handle_socks5 / handle_http
    addr_type, addr, target,\* per flow: parser locals
    attempt, last_error,    \* per flow: create_secure_connection locals
    tunnels,                \* per flow: the VideoOptimizedWebSocket objects created, oldest first
    ws,                     \* per flow: the handler's ws (0 = None, else index into tunnels)
    elapsed, waited,        \* per flow: age of the establishment budget / of the current await
    budget_spent,           \* per flow: the budget timer has fired
    wrote, closing,         \* per flow: what was written to the inbound socket; writer.is_closing()
    down, up,               \* per flow: ws_to_socket / socket_to_ws task state
    to_client, from_client, \* per flow: chunks written to / read from the inbound socket, in order
    video_stream_stats,     \* the buffer_overflows and drain_operations statistics
    hist,                   \* per flow: what the handler did to the counters, and how establishment ended
    health_failures, degraded_mode, \* health_checker's globals
    health_notice,          \* what the last health check printed
    loopback                \* a frame on its way from send() to recv(), outside any flow

counters == <<failed_connections, success_connections, timeout_connections>>
parser == <<kind, data, line, addr_type, addr, target>>
timers == <<elapsed, waited, budget_spent>>
establisher == <<attempt, last_error, tunnels, ws>>
inbound == <<wrote, closing>>
relay == <<down, up, to_client, from_client>>
health == <<health_failures, degraded_mode, health_notice>>
\* what no step of a handler writes but the end of a drain in ws_to_socket
process == <<current_config, health, loopback, video_stream_stats>>
\* what health_checker neither reads nor writes
flows == <<connection_semaphore, active_connections, timeout_connections, pc, parser, timers,
           establisher, inbound, relay, hist>>
vars == <<current_config, connection_semaphore, active_connections, counters, pc,
          parser, timers, establisher, inbound, relay, hist, health, loopback,
          video_stream_stats>>

NoHist == [inc |-> 0, dec |-> 0, succ |-> 0, fail |-> 0, tmo |-> 0,
           est |-> "none", timed_out |-> {}]

\* no frame under way
NoLoopback == [pc |-> "none", data |-> <<>>, mask |-> <<>>, stream |-> <<>>,
               length |-> 0, payload |-> <<>>]

\* the process as started by main: globals at their initial values, no flow yet
Started ==
    /\ current_config \in Configs
    /\ connection_semaphore = MAX_CONCURRENT_CONNECTIONS
    /\ active_connections = 0
    /\ failed_connections = 0
    /\ success_connections = 0
    /\ timeout_connections = 0
    /\ pc = [f \in Flow |-> "idle"]
    /\ kind = [f \in Flow |-> "none"]
    /\ data = [f \in Flow |-> <<>>]
    /\ line = [f \in Flow |-> ""]
    /\ addr_type = [f \in Flow |-> 0]
    /\ addr = [f \in Flow |-> <<>>]
    /\ target = [f \in Flow |-> <<>>]
    /\ attempt = [f \in Flow |-> 0]
    /\ last_error = [f \in Flow |-> "none"]
    /\ tunnels = [f \in Flow |-> <<>>]
    /\ ws = [f \in Flow |-> 0]
    /\ elapsed = [f \in Flow |-> 0]
    /\ waited = [f \in Flow |-> 0]
    /\ budget_spent = [f \in Flow |-> FALSE]
    /\ wrote = [f \in Flow |-> {}]
    /\ closing = [f \in Flow |-> FALSE]
    /\ down = [f \in Flow |-> "none"]
    /\ up = [f \in Flow |-> "none"]
    /\ to_client = [f \in Flow |-> <<>>]
    /\ video_stream_stats = [buffer_overflows |-> 0, drain_operations |-> 0]
    /\ from_client = [f \in Flow |-> <<>>]
    /\ hist = [f \in Flow |-> NoHist]
    /\ health_failures = 0
    /\ degraded_mode = FALSE
    /\ health_notice = "none"

Init == Started /\ loopback = NoLoopback

\* ---------------------------------------------------------------- admission
\* a semaphore that admits regardless of its value
CanAcquireAlways == TRUE

\* connection_semaphore.acquire() returns at once only while the value is positive
CanAcquire == connection_semaphore > 0

\* the first statement inside "async with": active_connections += 1
Admit(n) == n + 1

\* The handler of flow f, arrived on listener k, gets its slot:
\* active_connections += 1, then its first read.
Enter(f, k) ==
    /\ connection_semaphore' = connection_semaphore - 1
    /\ active_connections' = Admit(active_connections)
    /\ hist' = [hist EXCEPT ![f].inc = @ + 1]
    /\ pc' = [pc EXCEPT ![f] = IF k = "socks5" THEN "greeting" ELSE "reqline"]

\* A client connects to one of the two listeners (start_servers) and the handler
\* task starts: "async with connection_semaphore" goes through without
\* suspending when a slot is free and suspends in acquire() otherwise. Flows
\* are numbered in the order they arrive.
Connect(f, k) ==
    /\ pc[f] = "idle"
    /\ \A g \in Flow : g < f => pc[g] # "idle"
    /\ kind' = [kind EXCEPT ![f] = k]
    /\ IF CanAcquire
       THEN Enter(f, k)
       ELSE /\ pc' = [pc EXCEPT ![f] = "acquire"]
            /\ UNCHANGED <<connection_semaphore, active_connections, hist>>
    /\ UNCHANGED <<process, counters, data, line, addr_type, addr, target, timers,
                   establisher, inbound, relay>>

\* a handler suspended in acquire() is woken after a release and gets the slot
Acquire(f) ==
    /\ pc[f] = "acquire"
    /\ CanAcquire
    /\ Enter(f, kind[f])
    /\ UNCHANGED <<process, counters, parser, timers, establisher, inbound, relay>>

\* ------------------------------------------------------------ SOCKS5 parser
\* data[0] != 0x05 -> return (greeting)
IsSocks5(ver) == ver = 5

\* data[1] != 0x01 -> return (request header)
IsConnectCommand(cmd) == cmd = 1

\* a parser that takes every address type
AddrTypeAny(atyp) == TRUE

\* if addr_type == 1 ... elif addr_type == 3 ... else: return
AddrTypeKnown(atyp) == atyp \in {1, 3}

\* data = readexactly(2); data[0] != 0x05 -> return
\* (of the greeting ver nmethods, data keeps the version byte)
SocksGreeting(f, ver) ==
    /\ pc[f] = "greeting"
    /\ data' = [data EXCEPT ![f] = <<ver>>]
    /\ pc' = [pc EXCEPT ![f] = IF IsSocks5(ver) THEN "methods" ELSE "finally"]
    /\ UNCHANGED <<process, connection_semaphore, active_connections, counters,
                   kind, line, addr_type, addr, target, timers, establisher, inbound,
                   relay, hist>>

\* readexactly(nmethods); writer.write(b"\x05\x00"); await writer.drain()
SocksMethods(f) ==
    /\ pc[f] = "methods"
    /\ wrote' = [wrote EXCEPT ![f] = @ \cup {"method_reply"}]
    /\ pc' = [pc EXCEPT ![f] = "method_drain"]
    /\ UNCHANGED <<process, connection_semaphore, active_connections, counters,
                   parser, timers, establisher, closing, relay, hist>>

\* data = readexactly(4); data[1] != 0x01 -> return; addr_type = data[3]
\* (of the header ver cmd rsv atyp, data keeps ver, cmd and atyp)
SocksRequest(f, ver, cmd, atyp) ==
    /\ pc[f] = "request"
    /\ data' = [data EXCEPT ![f] = <<ver, cmd, atyp>>]
    /\ addr_type' = [addr_type EXCEPT ![f] = IF IsConnectCommand(cmd) THEN atyp ELSE @]
    /\ pc' = [pc EXCEPT ![f] = IF IsConnectCommand(cmd) /\ AddrTypeKnown(atyp)
                                THEN "addr" ELSE "finally"]
    /\ UNCHANGED <<process, connection_semaphore, active_connections, counters,
                   kind, line, addr, target, timers, establisher, inbound, relay, hist>>

\* addr = inet_ntoa(readexactly(4)) or the domain name of the given length
\* (clients send IPv4 literals as type 1 and names as type 3)
SocksAddr(f, a) ==
    /\ pc[f] = "addr"
    /\ addr_type[f] = 1 <=> a = LOCALHOST
    /\ addr' = [addr EXCEPT ![f] = a]
    /\ pc' = [pc EXCEPT ![f] = "port"]
    /\ UNCHANGED <<process, connection_semaphore, active_connections, counters,
                   kind, data, line, addr_type, target, timers, establisher, inbound,
                   relay, hist>>

\* port = int.from_bytes(readexactly(2)); target = f"{addr}:{port}"
SocksPort(f, p) ==
    /\ pc[f] = "port"
    /\ target' = [target EXCEPT ![f] = TargetOf(addr[f], Str(p))]
    /\ pc' = [pc EXCEPT ![f] = "establish"]
    /\ UNCHANGED <<process, connection_semaphore, active_connections, counters,
                   kind, data, line, addr_type, addr, timers, establisher, inbound,
                   relay, hist>>

\* -------------------------------------------------------------- HTTP parser
\* a parser that takes every request line for a CONNECT
IsConnectLineAny(l) == TRUE

\* line and line.startswith(b"CONNECT")
IsConnectLine(l) == l.method = "CONNECT"

\* line = readline(); not CONNECT -> 405; len(parts) < 2 -> return; target
\* (line keeps the method; parts[1] lives on in target)
HttpRequestLine(f, l) ==
    /\ pc[f] = "reqline"
    /\ line' = [line EXCEPT ![f] = l.method]
    /\ IF ~IsConnectLine(l)
       THEN /\ wrote' = [wrote EXCEPT ![f] = @ \cup {"405"}]
            /\ pc' = [pc EXCEPT ![f] = "http405_drain"]
            /\ UNCHANGED target
       ELSE IF l.arg = <<>>
       THEN /\ pc' = [pc EXCEPT ![f] = "finally"]
            /\ UNCHANGED <<wrote, target>>
       ELSE /\ target' = [target EXCEPT ![f] = HttpTarget(l.arg)]
            /\ pc' = [pc EXCEPT ![f] = "headers"]
            /\ UNCHANGED wrote
    /\ UNCHANGED <<process, connection_semaphore, active_connections, counters,
                   kind, data, addr_type, addr, timers, establisher, closing, relay, hist>>

\* while True: header = readline(); blank or EOF ends the header block
HttpHeaders(f) ==
    /\ pc[f] = "headers"
    /\ pc' = [pc EXCEPT ![f] = "establish"]
    /\ UNCHANGED <<process, connection_semaphore, active_connections, counters,
                   parser, timers, establisher, inbound, relay, hist>>

\* ------------------------------------------------- parser reads that fail
\* the reads wrapped in asyncio.wait_for(..., timeout=2)
TimedReads == {"greeting", "request", "reqline"}
AllReads == {"greeting", "methods", "request", "addr", "port", "reqline", "headers"}
Drains == {"method_drain", "http405_drain", "reply_drain"}

\* asyncio.TimeoutError -> except: pass -> finally
ParseReadTimeout(f) ==
    /\ pc[f] \in TimedReads
    /\ pc' = [pc EXCEPT ![f] = "finally"]
    /\ UNCHANGED <<process, connection_semaphore, active_connections, counters,
                   parser, timers, establisher, inbound, relay, hist>>

\* IncompleteReadError / ConnectionResetError -> except: pass -> finally
ParseReadError(f) ==
    /\ pc[f] \in AllReads
    /\ pc' = [pc EXCEPT ![f] = "finally"]
    /\ UNCHANGED <<process, connection_semaphore, active_connections, counters,
                   parser, timers, establisher, inbound, relay, hist>>

\* await writer.drain() after a reply: next statement of the handler
Drained(f) ==
    /\ pc[f] \in Drains
    /\ IF pc[f] = "reply_drain"
       THEN /\ pc' = [pc EXCEPT ![f] = "relay"]
            /\ down' = [down EXCEPT ![f] = "running"]
            /\ up' = [up EXCEPT ![f] = "running"]
            /\ UNCHANGED <<to_client, from_client>>
       ELSE /\ pc' = [pc EXCEPT ![f] = IF pc[f] = "method_drain" THEN "request" ELSE "finally"]
            /\ UNCHANGED relay
    /\ UNCHANGED <<process, connection_semaphore, active_connections, counters,
                   parser, timers, establisher, inbound, hist>>

\* await writer.drain() raises -> except: pass -> finally
DrainError(f) ==
    /\ pc[f] \in Drains
    /\ pc' = [pc EXCEPT ![f] = "finally"]
    /\ UNCHANGED <<process, connection_semaphore, active_connections, counters,
                   parser, timers, establisher, inbound, relay, hist>>

\* ------------------------------------------------ create_secure_connection
\* awaits of create_secure_connection (and of ws.connect / ws.close under it)
SendSteps == {"send1", "send2", "send3"}
RecvSteps == {"recv1", "recv2", "recv3"}
\* awaits inside VideoOptimizedWebSocket.close: try: ... except: pass
CloseWaits == {"upgrade_error_close", "upgrade_timeout_close", "close_error", "close_timeout"}
EstAwaits == {"connect", "upgrade", "retry_sleep"} \cup SendSteps \cup RecvSteps \cup CloseWaits

\* the timeout each await is wrapped in (the sleep: its duration)
StepLimit(p) ==
    CASE p = "connect" -> CONNECT_TIMEOUT
      [] p = "upgrade" -> HANDSHAKE_TIMEOUT
      [] p \in SendSteps -> SEND_TIMEOUT
      [] p \in RecvSteps -> KEY_RECV_TIMEOUT
      [] p \in CloseWaits -> CLOSE_WAIT_TIMEOUT
      [] p = "retry_sleep" -> RETRY_DELAY_CEIL

\* asyncio.wait_for(create_secure_connection(target), timeout=CONNECTION_TIMEOUT) is due
BudgetDue(f) == ~budget_spent[f] /\ elapsed[f] >= CONNECTION_TIMEOUT

\* the establisher's local ws: the object created last
Cur(f) == Len(tunnels[f])
CurWs(f) == tunnels[f][Cur(f)]

\* abstract crypto facade (crypto.py is not part of the sources)
Hmac(key, msg) == <<key, msg>>
Encrypt(key, plaintext) == <<key, plaintext>>
Decrypt(key, ciphertext) == IF ciphertext[1] = key THEN ciphertext[2] ELSE "CryptoAuthFailed"
\* whether decrypt returns (the tag verifies) rather than raises
Decrypts(key, ciphertext) == ciphertext[1] = key

\* what the remote server may answer
ServerPubLens == {16, SERVER_PUB_LEN}
ServerKeys == {"recv_key", "other_key"}
ServerReplies == {Encrypt("recv_key", "OK"), Encrypt("recv_key", "ERR"), Encrypt("other_key", "OK")}
ServerFrame(tag, arg) == [frame |-> tag, arg |-> arg]

\* One whole second passes while flow f is suspended in an establishment await.
Tick(f) ==
    /\ pc[f] \in EstAwaits
    /\ ~BudgetDue(f)
    /\ waited[f] < StepLimit(pc[f])
    /\ waited' = [waited EXCEPT ![f] = @ + 1]
    /\ elapsed' = [elapsed EXCEPT ![f] = IF budget_spent[f] THEN @ ELSE @ + 1]
    /\ UNCHANGED <<process, connection_semaphore, active_connections, counters, pc,
                   parser, budget_spent, establisher, inbound, relay, hist>>

\* the establisher's frame is gone: its locals and the timers with it
LeaveEstablisher(f) ==
    /\ attempt' = [attempt EXCEPT ![f] = 0]
    /\ last_error' = [last_error EXCEPT ![f] = "none"]
    /\ elapsed' = [elapsed EXCEPT ![f] = 0]
    /\ waited' = [waited EXCEPT ![f] = 0]
    /\ budget_spent' = [budget_spent EXCEPT ![f] = FALSE]

\* how establishment ended, from the error raised last
EndCause(err) == IF err = "timeout" THEN "step_timeout" ELSE err

\* after the loop: failed_connections += 1; raise last_error; the handler
\* returns from its except clause
GiveUp(f, err, h) ==
    /\ failed_connections' = failed_connections + 1
    /\ hist' = [hist EXCEPT ![f] = [h EXCEPT !.fail = @ + 1, !.est = EndCause(err)]]
    /\ pc' = [pc EXCEPT ![f] = "finally"]
    /\ LeaveEstablisher(f)

\* if attempt < MAX_RETRIES: await asyncio.sleep(RETRY_DELAY) else: break
RetryOrGiveUp(f, err, h) ==
    IF attempt[f] < MAX_RETRIES
    THEN /\ pc' = [pc EXCEPT ![f] = "retry_sleep"]
         /\ waited' = [waited EXCEPT ![f] = 0]
         /\ last_error' = [last_error EXCEPT ![f] = err]
         /\ hist' = [hist EXCEPT ![f] = h]
         /\ UNCHANGED <<failed_connections, attempt, elapsed, budget_spent>>
    ELSE GiveUp(f, err, h)

\* except Exception as e: last_error = e; if ws: await ws.close(); retry or break.
\* w is the establisher's ws as the failing step left it.
ExceptionBranch(f, w, err, h) ==
    /\ tunnels' = [tunnels EXCEPT ![f][Cur(f)] = WsClose(w)]
    /\ IF WsCloseAwaits(w)
       THEN /\ pc' = [pc EXCEPT ![f] = "close_error"]
            /\ waited' = [waited EXCEPT ![f] = 0]
            /\ last_error' = [last_error EXCEPT ![f] = err]
            /\ hist' = [hist EXCEPT ![f] = h]
            /\ UNCHANGED <<failed_connections, attempt, elapsed, budget_spent>>
       ELSE RetryOrGiveUp(f, err, h)

\* except asyncio.TimeoutError: timeout_connections += 1; last_error; await ws.close(); break
TimeoutBranch(f, w, h) ==
    LET h2 == [h EXCEPT !.tmo = @ + 1] IN
    /\ timeout_connections' = timeout_connections + 1
    /\ tunnels' = [tunnels EXCEPT ![f][Cur(f)] = WsClose(w)]
    /\ IF WsCloseAwaits(w)
       THEN /\ pc' = [pc EXCEPT ![f] = "close_timeout"]
            /\ waited' = [waited EXCEPT ![f] = 0]
            /\ last_error' = [last_error EXCEPT ![f] = "timeout"]
            /\ hist' = [hist EXCEPT ![f] = h2]
            /\ UNCHANGED <<failed_connections, attempt, elapsed, budget_spent>>
       ELSE GiveUp(f, "timeout", h2)

\* the call under wait_for: the loop pre-check, then the first attempt:
\* ws = VideoOptimizedWebSocket(); await ws.connect(...)
CreateSecureConnection(f) ==
    /\ pc[f] = "establish"
    /\ IF IsProxyLoop(target[f])
       THEN /\ pc' = [pc EXCEPT ![f] = "finally"]
            /\ hist' = [hist EXCEPT ![f].est = "loop"]
            /\ UNCHANGED tunnels
       ELSE /\ pc' = [pc EXCEPT ![f] = "connect"]
            /\ tunnels' = [tunnels EXCEPT ![f] = Append(@, NewWs)]
            /\ UNCHANGED hist
    /\ UNCHANGED <<process, connection_semaphore, active_connections, counters,
                   parser, timers, attempt, last_error, ws, inbound, relay>>

\* a step of attempt[f] timed out
TimedOut(f) == [hist[f] EXCEPT !.timed_out = @ \cup {attempt[f]}]

\* ws.connect: open_connection completed within CONNECT_TIMEOUT; _handshake starts
ConnectOk(f) ==
    /\ pc[f] = "connect" /\ ~BudgetDue(f) /\ waited[f] < CONNECT_TIMEOUT
    /\ tunnels' = [tunnels EXCEPT ![f][Cur(f)].writer = "open"]
    /\ pc' = [pc EXCEPT ![f] = "upgrade"]
    /\ waited' = [waited EXCEPT ![f] = 0]
    /\ UNCHANGED <<process, connection_semaphore, active_connections, counters,
                   parser, elapsed, budget_spent, attempt, last_error, ws, inbound, relay, hist>>

\* ws.connect: except Exception as e: raise Exception("connect failed")
ConnectError(f) ==
    /\ pc[f] = "connect" /\ ~BudgetDue(f) /\ waited[f] < CONNECT_TIMEOUT
    /\ ExceptionBranch(f, CurWs(f), "error", hist[f])
    /\ UNCHANGED <<process, connection_semaphore, active_connections,
                   success_connections, timeout_connections, parser, ws, inbound, relay>>

\* ws.connect: except asyncio.TimeoutError: raise Exception("connect timeout")
ConnectTimeout(f) ==
    /\ pc[f] = "connect" /\ ~BudgetDue(f) /\ waited[f] = CONNECT_TIMEOUT
    /\ ExceptionBranch(f, CurWs(f), "wrapped_timeout", TimedOut(f))
    /\ UNCHANGED <<process, connection_semaphore, active_connections,
                   success_connections, timeout_connections, parser, ws, inbound, relay>>

\* _handshake returned (101 seen); client_pub = os.urandom(32); await ws.send(client_pub)
UpgradeOk(f) ==
    /\ pc[f] = "upgrade" /\ ~BudgetDue(f) /\ waited[f] < HANDSHAKE_TIMEOUT
    /\ tunnels' = [tunnels EXCEPT ![f][Cur(f)] = WsSend(@, ClientFrame("client_pub", <<>>))]
    /\ pc' = [pc EXCEPT ![f] = "send1"]
    /\ waited' = [waited EXCEPT ![f] = 0]
    /\ UNCHANGED <<process, connection_semaphore, active_connections, counters,
                   parser, elapsed, budget_spent, attempt, last_error, ws, inbound, relay, hist>>

\* ws.connect: _handshake raised -> await self.close(); raise Exception("handshake failed")
UpgradeError(f) ==
    /\ pc[f] = "upgrade" /\ ~BudgetDue(f) /\ waited[f] < HANDSHAKE_TIMEOUT
    /\ tunnels' = [tunnels EXCEPT ![f][Cur(f)] = WsClose(@)]
    /\ pc' = [pc EXCEPT ![f] = "upgrade_error_close"]
    /\ waited' = [waited EXCEPT ![f] = 0]
    /\ UNCHANGED <<process, connection_semaphore, active_connections, counters,
                   parser, elapsed, budget_spent, attempt, last_error, ws, inbound, relay, hist>>

\* ws.connect: HANDSHAKE_TIMEOUT -> await self.close(); raise Exception("handshake timeout")
UpgradeTimeout(f) ==
    /\ pc[f] = "upgrade" /\ ~BudgetDue(f) /\ waited[f] = HANDSHAKE_TIMEOUT
    /\ tunnels' = [tunnels EXCEPT ![f][Cur(f)] = WsClose(@)]
    /\ pc' = [pc EXCEPT ![f] = "upgrade_timeout_close"]
    /\ waited' = [waited EXCEPT ![f] = 0]
    /\ hist' = [hist EXCEPT ![f] = TimedOut(f)]
    /\ UNCHANGED <<process, connection_semaphore, active_connections, counters,
                   parser, elapsed, budget_spent, attempt, last_error, ws, inbound, relay>>

\* wait_closed inside ws.close() is over (closed, failed or timed out: all swallowed)
WsCloseDone(f) ==
    /\ pc[f] \in CloseWaits /\ ~BudgetDue(f)
    /\ CASE pc[f] = "upgrade_error_close" -> RetryOrGiveUp(f, "error", hist[f])
         [] pc[f] = "upgrade_timeout_close" -> RetryOrGiveUp(f, "wrapped_timeout", hist[f])
         [] pc[f] = "close_error" -> RetryOrGiveUp(f, last_error[f], hist[f])
         [] pc[f] = "close_timeout" -> GiveUp(f, "timeout", hist[f])
    /\ UNCHANGED <<process, connection_semaphore, active_connections,
                   success_connections, timeout_connections, parser, tunnels, ws, inbound, relay>>

\* the object the establisher's ws was bound to before "ws = VideoOptimizedWebSocket()"
\* rebinds it: nothing refers to it any more, what stays is its transport
Unreferenced(w) == [w EXCEPT !.sent = <<>>, !.rcvd = <<>>]

\* asyncio.sleep(RETRY_DELAY) is over: next attempt, a new ws, ws.connect
RetrySleepDone(f) ==
    /\ pc[f] = "retry_sleep" /\ ~BudgetDue(f)
    /\ attempt' = [attempt EXCEPT ![f] = @ + 1]
    /\ tunnels' = [tunnels EXCEPT ![f] = Append([@ EXCEPT ![Cur(f)] = Unreferenced(@)], NewWs)]
    /\ pc' = [pc EXCEPT ![f] = "connect"]
    /\ waited' = [waited EXCEPT ![f] = 0]
    /\ UNCHANGED <<process, connection_semaphore, active_connections, counters,
                   parser, elapsed, budget_spent, last_error, ws, inbound, relay, hist>>

\* ws.send: the drain after the frame was written is over
SendOk(f) ==
    /\ pc[f] \in SendSteps /\ ~BudgetDue(f) /\ waited[f] < SEND_TIMEOUT
    /\ pc' = [pc EXCEPT ![f] = CASE pc[f] = "send1" -> "recv1"
                                 [] pc[f] = "send2" -> "recv2"
                                 [] pc[f] = "send3" -> "recv3"]
    /\ waited' = [waited EXCEPT ![f] = 0]
    /\ UNCHANGED <<process, connection_semaphore, active_connections, counters,
                   parser, elapsed, budget_spent, establisher, inbound, relay, hist>>

\* a handshake send or receive raises (connection reset, IncompleteReadError)
StepError(f) ==
    /\ pc[f] \in SendSteps \cup RecvSteps /\ ~BudgetDue(f) /\ waited[f] < StepLimit(pc[f])
    /\ ExceptionBranch(f, CurWs(f), "error", hist[f])
    /\ UNCHANGED <<process, connection_semaphore, active_connections,
                   success_connections, timeout_connections, parser, ws, inbound, relay>>

\* a handshake send or receive runs into its wait_for timeout
StepTimeout(f) ==
    /\ pc[f] \in SendSteps \cup RecvSteps /\ ~BudgetDue(f) /\ waited[f] = StepLimit(pc[f])
    /\ TimeoutBranch(f, CurWs(f), TimedOut(f))
    /\ UNCHANGED <<process, connection_semaphore, active_connections,
                   success_connections, parser, ws, inbound, relay>>

\* a length check that accepts any server_pub
ServerPubAny(n) == TRUE

\* len(server_pub) != 32 raises
ServerPubOk(n) == n = SERVER_PUB_LEN

\* server_pub = recv(); length check; derive_keys; await ws.send(auth_digest)
RecvServerPub(f, n) ==
    LET w == WsRecv(CurWs(f), ServerFrame("server_pub", <<n>>)) IN
    /\ pc[f] = "recv1" /\ ~BudgetDue(f) /\ waited[f] < KEY_RECV_TIMEOUT
    /\ IF ServerPubOk(n)
       THEN /\ tunnels' = [tunnels EXCEPT ![f][Cur(f)] =
                              WsSend(w, ClientFrame("auth", Hmac("send_key", "auth")))]
            /\ pc' = [pc EXCEPT ![f] = "send2"]
            /\ waited' = [waited EXCEPT ![f] = 0]
            /\ UNCHANGED <<failed_connections, attempt, last_error, elapsed, budget_spent, hist>>
       ELSE ExceptionBranch(f, w, "error", hist[f])
    /\ UNCHANGED <<process, connection_semaphore, active_connections,
                   success_connections, timeout_connections, parser, ws, inbound, relay>>

\* hmac.compare_digest(auth_response, expected)
AuthOk(auth_response) == auth_response = Hmac("recv_key", "ok")

\* auth_response = recv(); compare; await ws.send(encrypt(send_key, "CONNECT " + target))
RecvAuth(f, k) ==
    LET w == WsRecv(CurWs(f), ServerFrame("auth_response", Hmac(k, "ok"))) IN
    /\ pc[f] = "recv2" /\ ~BudgetDue(f) /\ waited[f] < KEY_RECV_TIMEOUT
    /\ IF AuthOk(Hmac(k, "ok"))
       THEN /\ tunnels' = [tunnels EXCEPT ![f][Cur(f)] =
                              WsSend(w, ClientFrame("connect", Encrypt("send_key", target[f])))]
            /\ pc' = [pc EXCEPT ![f] = "send3"]
            /\ waited' = [waited EXCEPT ![f] = 0]
            /\ UNCHANGED <<failed_connections, attempt, last_error, elapsed, budget_spent, hist>>
       ELSE ExceptionBranch(f, w, "error", hist[f])
    /\ UNCHANGED <<process, connection_semaphore, active_connections,
                   success_connections, timeout_connections, parser, ws, inbound, relay>>

\* a reply check that accepts any CONNECT response
ConnectReplyAny(response) == TRUE

\* plaintext = decrypt(recv_key, response); plaintext != b"OK" raises (so does decrypt)
ConnectReplyOk(response) == Decrypt("recv_key", response) = "OK"

\* response = recv(); on "OK": success_connections += 1; return ws, keys; the
\* handler writes its success reply and drains
RecvConnectReply(f, response) ==
    LET w == WsRecv(CurWs(f), ServerFrame("connect_response", response)) IN
    /\ pc[f] = "recv3" /\ ~BudgetDue(f) /\ waited[f] < KEY_RECV_TIMEOUT
    /\ IF ConnectReplyOk(response)
       THEN /\ tunnels' = [tunnels EXCEPT ![f][Cur(f)] = w]
            /\ success_connections' = success_connections + 1
            /\ hist' = [hist EXCEPT ![f].succ = @ + 1, ![f].est = "success"]
            /\ ws' = [ws EXCEPT ![f] = Cur(f)]
            /\ wrote' = [wrote EXCEPT ![f] = @ \cup {"success"}]
            /\ pc' = [pc EXCEPT ![f] = "reply_drain"]
            /\ LeaveEstablisher(f)
            /\ UNCHANGED failed_connections
       ELSE /\ ExceptionBranch(f, w, "error", hist[f])
            /\ UNCHANGED <<success_connections, ws, wrote>>
    /\ UNCHANGED <<process, connection_semaphore, active_connections,
                   timeout_connections, parser, closing, relay>>

\* The CONNECTION_TIMEOUT budget fires: wait_for cancels the establisher at its
\* current await. Inside ws.close() the bare except swallows the CancelledError
\* and the establisher runs on; anywhere else it propagates, wait_for raises
\* TimeoutError and the handler returns from its except clause.
BudgetExpire(f) ==
    /\ pc[f] \in EstAwaits /\ BudgetDue(f)
    /\ IF pc[f] \in CloseWaits
       THEN /\ budget_spent' = [budget_spent EXCEPT ![f] = TRUE]
            /\ UNCHANGED <<pc, hist, attempt, last_error, elapsed, waited>>
       ELSE /\ pc' = [pc EXCEPT ![f] = "finally"]
            /\ hist' = [hist EXCEPT ![f].est = "budget"]
            /\ LeaveEstablisher(f)
    /\ UNCHANGED <<process, connection_semaphore, active_connections, counters,
                   parser, tunnels, ws, inbound, relay>>

\* ------------------------------------------------------------------- relay
HandlerWs(f) == tunnels[f][ws[f]]
DataFrames(q) == Len(SelectSeq(q, LAMBDA m : m.frame = "data"))

\* a write that puts the chunk in front of what is buffered
DeliverFirst(q, chunk) == <<chunk>> \o q

\* writer.write(plaintext): the transport's buffer is a queue, the chunk goes to
\* its end
Deliver(q, chunk) == Append(q, chunk)

\* a loop that drains from the threshold on
NeedsDrainAtThreshold(size) == size * 10 >= WRITE_BUFFER_SIZE * DRAIN_THRESHOLD_TENTHS

\* if buffer_size > WRITE_BUFFER_SIZE * DRAIN_THRESHOLD
\* (640 * 1024 * 0.7 is the float 458752.0 exactly)
NeedsDrain(size) == size * 10 > WRITE_BUFFER_SIZE * DRAIN_THRESHOLD_TENTHS

\* the drains counted so far
DrainsCounted == video_stream_stats.buffer_overflows + video_stream_stats.drain_operations

\* what get_write_buffer_size() may return after a write: the threshold and one
\* byte more
BufferSizes == {458752, 458753}

\* ws_to_socket is suspended in ws.recv() and the server's next data frame
\* arrives: the reader's buffer takes it and the task is woken. The server's
\* k-th data frame carries chunk k. A closed transport feeds nothing.
DownArrive(f, key) ==
    LET k == DataFrames(HandlerWs(f).rcvd) + 1 IN
    /\ pc[f] = "relay" /\ down[f] = "running"
    /\ HandlerWs(f).writer = "open" /\ HandlerWs(f).buffer = <<>>
    /\ k <= MaxRelay
    /\ tunnels' = [tunnels EXCEPT ![f][ws[f]] = WsFeed(@, ServerFrame("data", Encrypt(key, k)))]
    /\ UNCHANGED <<process, connection_semaphore, active_connections, counters, pc,
                   parser, timers, attempt, last_error, ws, inbound, relay, hist>>

\* a loop that passes over a frame that does not decrypt
AfterFrameSkipsBad(decrypted, drain) == IF decrypted /\ drain THEN "draining" ELSE "running"

\* where ws_to_socket is after a pass: decrypt raised -> the loop's bare except
\* and its finally (l.471-479); otherwise the drain or the next pass
AfterFrame(decrypted, drain) ==
    IF ~decrypted THEN "failed" ELSE IF drain THEN "draining" ELSE "running"

\* ws_to_socket: the woken task runs the rest of its pass: recv returns the
\* frame, decrypt, writer.write(plaintext); a frame that does not decrypt
\* raises out of the loop. With the write buffer above DRAIN_THRESHOLD the loop
\* suspends in drain; size is what get_write_buffer_size() returns after the
\* write.
DownFrame(f, size) ==
    LET enc_data == Head(HandlerWs(f).buffer).arg IN
    /\ pc[f] = "relay" /\ down[f] = "running"
    /\ WsRecvResumes(HandlerWs(f)) /\ ~closing[f]
    /\ NeedsDrain(size) => DrainsCounted < MaxDrains
    /\ tunnels' = [tunnels EXCEPT ![f][ws[f]] =
                      WsRecv([@ EXCEPT !.buffer = Tail(@)], Head(@.buffer))]
    /\ down' = [down EXCEPT ![f] = AfterFrame(Decrypts("recv_key", enc_data), NeedsDrain(size))]
    /\ IF ~Decrypts("recv_key", enc_data)
       THEN UNCHANGED <<wrote, to_client>>
       ELSE /\ to_client' = [to_client EXCEPT ![f] = Deliver(@, Decrypt("recv_key", enc_data))]
            /\ wrote' = [wrote EXCEPT ![f] = @ \cup {"data"}]
    /\ UNCHANGED <<process, connection_semaphore, active_connections, counters, pc,
                   parser, timers, attempt, last_error, ws, closing, up, from_client, hist>>

\* one more in a statistics counter
Counted1(stats, key) == [stats EXCEPT ![key] = @ + 1]

\* ws_to_socket: the drain completed within DRAIN_TIMEOUT: drain_operations += 1,
\* next pass
DownDrained(f) ==
    /\ pc[f] = "relay" /\ down[f] = "draining"
    /\ down' = [down EXCEPT ![f] = "running"]
    /\ video_stream_stats' = Counted1(video_stream_stats, "drain_operations")
    /\ UNCHANGED <<current_config, health, loopback, connection_semaphore, active_connections,
                   counters, pc, parser, timers, establisher, inbound, up, to_client,
                   from_client, hist>>

\* ws_to_socket: the drain ran into DRAIN_TIMEOUT: except asyncio.TimeoutError:
\* buffer_overflows += 1, next pass
DownDrainTimeout(f) ==
    /\ pc[f] = "relay" /\ down[f] = "draining"
    /\ down' = [down EXCEPT ![f] = "running"]
    /\ video_stream_stats' = Counted1(video_stream_stats, "buffer_overflows")
    /\ UNCHANGED <<current_config, health, loopback, connection_semaphore, active_connections,
                   counters, pc, parser, timers, establisher, inbound, up, to_client,
                   from_client, hist>>

\* ws_to_socket leaves its loop (tunnel closed, inbound closing, RECV_TIMEOUT, an
\* error, or the cancellation its bare except swallows) and runs its finally:
\* drain, then writer.close() unless the drain raised
DownExit(f) ==
    /\ pc[f] \in {"relay", "relay_cancelled"} /\ down[f] \in {"running", "draining", "failed"}
    /\ down' = [down EXCEPT ![f] = "done"]
    /\ \/ closing' = [closing EXCEPT ![f] = TRUE]
       \/ ~closing[f] /\ UNCHANGED closing
    /\ UNCHANGED <<process, connection_semaphore, active_connections, counters, pc,
                   parser, timers, establisher, wrote, up, to_client, from_client, hist>>

\* socket_to_ws: one pass of the loop: read, encrypt, ws.send. The client's k-th
\* read returns chunk k.
UpFrame(f) ==
    LET k == Len(from_client[f]) + 1 IN
    /\ pc[f] = "relay" /\ up[f] = "running"
    /\ ~HandlerWs(f).closed
    /\ k <= MaxRelay
    /\ from_client' = [from_client EXCEPT ![f] = Append(@, k)]
    /\ tunnels' = [tunnels EXCEPT ![f][ws[f]] =
                      WsSend(@, ClientFrame("data", Encrypt("send_key", k)))]
    /\ UNCHANGED <<process, connection_semaphore, active_connections, counters, pc,
                   parser, timers, attempt, last_error, ws, inbound, down, up, to_client, hist>>

\* socket_to_ws leaves its loop (EOF, RECV_TIMEOUT, an error, tunnel closed, or
\* the cancellation) and runs its finally: ws.close() unless closed
UpExit(f) ==
    /\ pc[f] \in {"relay", "relay_cancelled"} /\ up[f] = "running"
    /\ up' = [up EXCEPT ![f] = "done"]
    /\ tunnels' = [tunnels EXCEPT ![f][ws[f]] = WsClose(@)]
    /\ UNCHANGED <<process, connection_semaphore, active_connections, counters, pc,
                   parser, timers, attempt, last_error, ws, inbound, down, to_client,
                   from_client, hist>>

\* asyncio.gather(...) returns once both loops are done; with the session timer
\* fired wait_for raises TimeoutError, which the handler passes over
GatherDone(f) ==
    /\ pc[f] \in {"relay", "relay_cancelled"}
    /\ down[f] = "done" /\ up[f] = "done"
    /\ pc' = [pc EXCEPT ![f] = "finally"]
    /\ UNCHANGED <<process, connection_semaphore, active_connections, counters,
                   parser, timers, establisher, inbound, relay, hist>>

\* wait_for(gather, timeout=300) fires: both loops are cancelled
SessionTimeout(f) ==
    /\ pc[f] = "relay"
    /\ down[f] # "done" \/ up[f] # "done"
    /\ pc' = [pc EXCEPT ![f] = "relay_cancelled"]
    /\ UNCHANGED <<process, connection_semaphore, active_connections, counters,
                   parser, timers, establisher, inbound, relay, hist>>

\* --------------------------------------------------------- handler finally
\* a finally block that leaves the counter alone
RetireNever(n) == n

\* finally: active_connections -= 1
Retire(n) == n - 1

\* "if not writer.is_closing(): writer.close(); await wait_closed()"
CloseInbound(f) ==
    IF closing[f]
    THEN /\ pc' = [pc EXCEPT ![f] = "exit"]
         /\ UNCHANGED closing
    ELSE /\ pc' = [pc EXCEPT ![f] = "fin_writer"]
         /\ closing' = [closing EXCEPT ![f] = TRUE]

\* finally: active_connections -= 1; if ws: await wait_for(ws.close(), 0.5); ...
Finally(f) ==
    /\ pc[f] = "finally"
    /\ active_connections' = Retire(active_connections)
    /\ hist' = [hist EXCEPT ![f].dec = @ + 1]
    /\ IF ws[f] # 0
       THEN /\ tunnels' = [tunnels EXCEPT ![f][ws[f]] = WsClose(@)]
            /\ IF WsCloseAwaits(HandlerWs(f))
               THEN /\ pc' = [pc EXCEPT ![f] = "fin_ws"]
                    /\ UNCHANGED closing
               ELSE CloseInbound(f)
       ELSE /\ UNCHANGED tunnels
            /\ CloseInbound(f)
    /\ UNCHANGED <<process, connection_semaphore, counters, parser, timers,
                   attempt, last_error, ws, wrote, relay>>

\* the handler's ws.close() is over (or its 0.5 s ran out)
FinWsDone(f) ==
    /\ pc[f] = "fin_ws"
    /\ CloseInbound(f)
    /\ UNCHANGED <<process, connection_semaphore, active_connections, counters,
                   parser, timers, establisher, wrote, relay, hist>>

\* writer.wait_closed() is over: the finally block is through
FinWriterDone(f) ==
    /\ pc[f] = "fin_writer"
    /\ pc' = [pc EXCEPT ![f] = "exit"]
    /\ UNCHANGED <<process, connection_semaphore, active_connections, counters,
                   parser, timers, establisher, inbound, relay, hist>>

\* end of "async with connection_semaphore": release()
SemRelease(n) == n + 1

\* The handler leaves the async with block and its task ends: the semaphore is
\* released; the handler's frame and the flow's objects are no longer referenced.
ExitHandler(f) ==
    /\ pc[f] = "exit"
    /\ connection_semaphore' = SemRelease(connection_semaphore)
    /\ pc' = [pc EXCEPT ![f] = "done"]
    /\ kind' = [kind EXCEPT ![f] = "none"]
    /\ data' = [data EXCEPT ![f] = <<>>]
    /\ line' = [line EXCEPT ![f] = ""]
    /\ addr_type' = [addr_type EXCEPT ![f] = 0]
    /\ addr' = [addr EXCEPT ![f] = <<>>]
    /\ target' = [target EXCEPT ![f] = <<>>]
    /\ tunnels' = [tunnels EXCEPT ![f] = <<>>]
    /\ ws' = [ws EXCEPT ![f] = 0]
    /\ wrote' = [wrote EXCEPT ![f] = {}]
    /\ closing' = [closing EXCEPT ![f] = FALSE]
    /\ down' = [down EXCEPT ![f] = "none"]
    /\ up' = [up EXCEPT ![f] = "none"]
    /\ to_client' = [to_client EXCEPT ![f] = <<>>]
    /\ from_client' = [from_client EXCEPT ![f] = <<>>]
    /\ hist' = [hist EXCEPT ![f] = NoHist]
    /\ UNCHANGED <<process, active_connections, counters, timers, attempt, last_error>>

\* ------------------------------------------------------- WebSocket framing
\* a ^ b on bytes
RECURSIVE Xor(_, _)
Xor(a, b) ==
    IF a = 0 THEN b
    ELSE IF b = 0 THEN a
    ELSE 2 * Xor(a \div 2, b \div 2) + ((a + b) % 2)

\* n.to_bytes(k, 'big')
RECURSIVE ToBytes(_, _)
ToBytes(n, k) == IF k = 0 THEN <<>> ELSE ToBytes(n \div 256, k - 1) \o <<n % 256>>

\* int.from_bytes(b, 'big')
RECURSIVE FromBytes(_)
FromBytes(b) ==
    IF b = <<>> THEN 0 ELSE 256 * FromBytes(SubSeq(b, 1, Len(b) - 1)) + b[Len(b)]

\* a length field that keeps 126 inline
LengthFieldInline126(length) ==
    IF length < 127 THEN <<128 + length>>
    ELSE IF length < 65536 THEN <<128 + 126>> \o ToBytes(length, 2)
    ELSE <<128 + 127>> \o ToBytes(length, 8)

\* send: the mask bit with the 7-bit length, then the extended length
LengthField(length) ==
    IF length < 126 THEN <<128 + length>>
    ELSE IF length < 65536 THEN <<128 + 126>> \o ToBytes(length, 2)
    ELSE <<128 + 127>> \o ToBytes(length, 8)

\* send: masked[i] ^= mask[i % 4]
Masked(bytes, mask) ==
    [i \in 1 .. Len(bytes) |-> Xor(bytes[i], mask[((i - 1) % 4) + 1])]

\* send: the frame written for data under the mask os.urandom(4) returned
Frame(bytes, mask) == <<130>> \o LengthField(Len(bytes)) \o mask \o Masked(bytes, mask)

\* payloads handed to send(): n bytes, counting up from a first byte
PayloadLengths == {0, 1, 3, 4, 5, 125, 126, 127, 65535, 65536}
FirstBytes == {0, 200}
Payload(n, first) == [i \in 1 .. n |-> (first + i - 1) % 256]
Masks == { <<1, 2, 3, 4>>, <<255, 0, 171, 16>> }

\* send(data): the frame goes to the transport, here read back by recv()
LoopSend(mask) ==
    /\ loopback.pc = "send"
    /\ loopback' = [loopback EXCEPT !.pc = "header", !.mask = mask,
                                    !.stream = Frame(loopback.data, mask)]
    /\ UNCHANGED <<current_config, health, video_stream_stats, counters, flows>>

\* recv: header = readexactly(2); length = header[1] & 0x7F
LoopRecvHeader ==
    /\ loopback.pc = "header"
    /\ Len(loopback.stream) >= 2
    /\ LET length == loopback.stream[2] % 128 IN
       loopback' = [loopback EXCEPT !.length = length,
                                    !.stream = SubSeq(@, 3, Len(@)),
                                    !.pc = IF length \in {126, 127} THEN "length" ELSE "payload"]
    /\ UNCHANGED <<current_config, health, video_stream_stats, counters, flows>>

\* recv: length = int.from_bytes(readexactly(2 or 8), 'big')
LoopRecvLength ==
    /\ loopback.pc = "length"
    /\ LET n == IF loopback.length = 126 THEN 2 ELSE 8 IN
       /\ Len(loopback.stream) >= n
       /\ loopback' = [loopback EXCEPT !.length = FromBytes(SubSeq(loopback.stream, 1, n)),
                                       !.stream = SubSeq(@, n + 1, Len(@)),
                                       !.pc = "payload"]
    /\ UNCHANGED <<current_config, health, video_stream_stats, counters, flows>>

\* recv: payload = readexactly(length); return payload
LoopRecvPayload ==
    /\ loopback.pc = "payload"
    /\ Len(loopback.stream) >= loopback.length
    /\ loopback' = [loopback EXCEPT !.payload = SubSeq(loopback.stream, 1, loopback.length),
                                    !.stream = SubSeq(@, loopback.length + 1, Len(@)),
                                    !.pc = "done"]
    /\ UNCHANGED <<current_config, health, video_stream_stats, counters, flows>>

FrameInit ==
    /\ Started
    /\ \E n \in PayloadLengths, first \in FirstBytes :
          loopback = [NoLoopback EXCEPT !.pc = "send", !.data = Payload(n, first)]

NextFrame ==
    \/ \E mask \in Masks : LoopSend(mask)
    \/ LoopRecvHeader
    \/ LoopRecvLength
    \/ LoopRecvPayload

FrameSpec == FrameInit /\ [][NextFrame]_vars

\* ----------------------------------------------------------- health_checker
\* failure_rate = failed_connections / total; failure_rate > 0.5 (total > 0)
FailureRateHigh(failed, total) == 2 * failed > total

\* a threshold test that needs one failing check more
DegradesLate(failures, degraded) == failures > FAILURE_THRESHOLD /\ ~degraded

\* health_failures >= FAILURE_THRESHOLD and not degraded_mode
Degrades(failures, degraded) == failures >= FAILURE_THRESHOLD /\ ~degraded

\* degraded_mode and health_failures == 0
Recovers(failures, degraded) == degraded /\ failures = 0

\* max(0, health_failures - 1)
DecayedFailures(failures) == IF failures - 1 > 0 THEN failures - 1 ELSE 0

\* One pass of health_checker's loop, after its sleep(HEALTH_CHECK_INTERVAL).
HealthTick ==
    LET total == success_connections + failed_connections IN
    /\ IF total > 0
       THEN IF FailureRateHigh(failed_connections, total)
            THEN /\ health_failures < MaxHealthFailures
                 /\ health_failures' = health_failures + 1
                 /\ IF Degrades(health_failures + 1, degraded_mode)
                    THEN degraded_mode' = TRUE /\ health_notice' = "warning"
                    ELSE UNCHANGED degraded_mode /\ health_notice' = "none"
            ELSE /\ health_failures' = DecayedFailures(health_failures)
                 /\ IF Recovers(DecayedFailures(health_failures), degraded_mode)
                    THEN degraded_mode' = FALSE /\ health_notice' = "recovery"
                    ELSE UNCHANGED degraded_mode /\ health_notice' = "none"
       ELSE /\ health_notice' = "none"
            /\ UNCHANGED <<health_failures, degraded_mode>>
    /\ UNCHANGED <<current_config, loopback, video_stream_stats, failed_connections,
                   success_connections, flows>>

\* what create_secure_connection does to the counters health_checker reads:
\* success_connections += 1 on return
EstablishmentSucceeds ==
    /\ success_connections + failed_connections < MaxOutcomes
    /\ success_connections' = success_connections + 1
    /\ UNCHANGED <<process, failed_connections, flows>>

\* failed_connections += 1 before "raise last_error"
EstablishmentFails ==
    /\ success_connections + failed_connections < MaxOutcomes
    /\ failed_connections' = failed_connections + 1
    /\ UNCHANGED <<process, success_connections, flows>>

NextHealth == HealthTick \/ EstablishmentSucceeds \/ EstablishmentFails

\* health_checker runs "while True: await asyncio.sleep(...)": it keeps checking
HealthSpec == Init /\ [][NextHealth]_vars /\ WF_vars(HealthTick)

\* ------------------------------------------------------------ specification
SocksVersions == {4, 5}
SocksCommands == {1, 2}
SocksAddrTypes == {1, 3, 4}
RequestHosts == { r[1] : r \in Requests }

Next ==
    \E f \in Flow :
        \/ \E k \in {"socks5", "http"} : Connect(f, k)
        \/ Acquire(f)
        \/ \E v \in SocksVersions : SocksGreeting(f, v)
        \/ SocksMethods(f)
        \/ \E v \in SocksVersions, c \in SocksCommands, t \in SocksAddrTypes : SocksRequest(f, v, c, t)
        \/ \E a \in RequestHosts : SocksAddr(f, a)
        \/ \E r \in Requests : r[1] = addr[f] /\ SocksPort(f, r[2])
        \/ \E l \in HttpLines : HttpRequestLine(f, l)
        \/ HttpHeaders(f)
        \/ ParseReadTimeout(f)
        \/ ParseReadError(f)
        \/ Drained(f)
        \/ DrainError(f)
        \/ CreateSecureConnection(f)
        \/ Tick(f)
        \/ ConnectOk(f)
        \/ ConnectError(f)
        \/ ConnectTimeout(f)
        \/ UpgradeOk(f)
        \/ UpgradeError(f)
        \/ UpgradeTimeout(f)
        \/ WsCloseDone(f)
        \/ RetrySleepDone(f)
        \/ SendOk(f)
        \/ StepError(f)
        \/ StepTimeout(f)
        \/ \E n \in ServerPubLens : RecvServerPub(f, n)
        \/ \E k \in ServerKeys : RecvAuth(f, k)
        \/ \E r \in ServerReplies : RecvConnectReply(f, r)
        \/ BudgetExpire(f)
        \/ \E k \in ServerKeys : DownArrive(f, k)
        \/ \E size \in BufferSizes : DownFrame(f, size)
        \/ DownDrained(f)
        \/ DownDrainTimeout(f)
        \/ DownExit(f)
        \/ UpFrame(f)
        \/ UpExit(f)
        \/ GatherDone(f)
        \/ SessionTimeout(f)
        \/ Finally(f)
        \/ FinWsDone(f)
        \/ FinWriterDone(f)
        \/ ExitHandler(f)

Spec == Init /\ [][Next]_vars

\* What the event loop guarantees a flow whose relay has started: each copy loop
\* leaves its await in the end (RECV_TIMEOUT, and the 300 s session timer cancels
\* whatever is left), a finished gather resumes the handler, and the closes in
\* the finally blocks are bounded by their timeouts.
RelayFairness(f) ==
    /\ WF_vars(DownExit(f)) /\ WF_vars(UpExit(f)) /\ WF_vars(GatherDone(f))
    /\ WF_vars(Finally(f)) /\ WF_vars(FinWsDone(f)) /\ WF_vars(FinWriterDone(f))

FairSpec == Spec /\ \A f \in Flow : RelayFairness(f)

-----------------------------------------------------------------------------
\* ------------------------------------------------------------- properties
\* where a handler is between its "active_connections += 1" and its finally
Counted == {"greeting", "methods", "method_drain", "request", "addr", "port",
            "reqline", "http405_drain", "headers", "establish", "reply_drain",
            "relay", "relay_cancelled", "finally"} \cup EstAwaits
\* where a handler is inside its finally block, after the decrement
Finalizing == {"fin_ws", "fin_writer", "exit"}
\* inside "async with connection_semaphore"
PastGate(f) == pc[f] \in Counted \cup Finalizing

\* C1: active_connections is never negative; a handler adds one to it exactly
\* once after it got its slot and takes one off exactly once on whichever path
\* it leaves (so the counter is the number of handlers between the two
\* statements), and with every handler torn down it is back at its starting
\* value 0.
C1_ActiveConnectionsBalanced ==
    /\ active_connections >= 0
    /\ active_connections = Cardinality({f \in Flow : pc[f] \in Counted})
    /\ \A f \in Flow :
        /\ pc[f] \in Counted => hist[f].inc = 1 /\ hist[f].dec = 0
        /\ pc[f] \in Finalizing => hist[f].inc = 1 /\ hist[f].dec = 1
        /\ ~PastGate(f) => hist[f].inc = 0 /\ hist[f].dec = 0
    /\ (\A f \in Flow : ~PastGate(f)) => active_connections = 0

\* C1: a handler whose establishment was cancelled by the budget is through
\* its finally block, and the counter is back at 0.
C1_Witness ==
    \E f \in Flow :
        /\ pc[f] = "exit" /\ hist[f].est = "budget"
        /\ hist[f].inc = 1 /\ hist[f].dec = 1
        /\ active_connections = 0

\* C2: at most MAX_CONCURRENT_CONNECTIONS handlers are past the gate (the
\* semaphore's value is the number of free slots), a handler waiting at the gate
\* has read, written and dialed nothing, and it can go on as soon as a slot is
\* free.
C2_AdmissionGate ==
    /\ Cardinality({f \in Flow : PastGate(f)}) <= MAX_CONCURRENT_CONNECTIONS
    /\ connection_semaphore = MAX_CONCURRENT_CONNECTIONS - Cardinality({f \in Flow : PastGate(f)})
    /\ \A f \in Flow :
        pc[f] = "acquire" =>
            /\ wrote[f] = {} /\ tunnels[f] = <<>> /\ ~closing[f]
            /\ addr_type[f] = 0 /\ addr[f] = <<>> /\ target[f] = <<>>
            /\ hist[f] = NoHist
            /\ connection_semaphore > 0 => ENABLED Acquire(f)

\* C2: a flow waits at the gate while every slot is held by another flow.
C2_Witness ==
    \E f \in Flow :
        /\ pc[f] = "acquire" /\ connection_semaphore = 0
        /\ \E g \in Flow : g # f /\ PastGate(g)

\* C3: when a handler is through its finally block, every tunnel WebSocket it
\* opened is closed and the inbound socket is closed; the slot it holds is
\* released by the step that follows.
C3_ExitClosesEverything ==
    \A f \in Flow :
        pc[f] = "exit" =>
            /\ \A i \in 1 .. Len(tunnels[f]) : tunnels[f][i].writer # "open"
            /\ closing[f]
            /\ ENABLED ExitHandler(f)

\* C3: a handler is through its finally block after the establishment budget
\* ran out, and a tunnel it opened is still open.
C3_Witness ==
    \E f \in Flow :
        /\ pc[f] = "exit" /\ hist[f].est = "budget"
        /\ \E i \in 1 .. Len(tunnels[f]) : tunnels[f][i].writer = "open"

\* the three server frames of a handshake that succeeded
Established(w) ==
    /\ Len(w.rcvd) >= 3
    /\ w.rcvd[1] = ServerFrame("server_pub", <<SERVER_PUB_LEN>>)
    /\ w.rcvd[2] = ServerFrame("auth_response", Hmac("recv_key", "ok"))
    /\ w.rcvd[3].frame = "connect_response"
    /\ Decrypt("recv_key", w.rcvd[3].arg) = "OK"

\* C4: the success reply is on the inbound socket only if the handler holds a
\* tunnel whose handshake succeeded in full (32-byte server_pub, matching auth
\* response, CONNECT response decrypting to "OK"); relayed data only after the
\* success reply; a flow whose establishment failed or timed out has neither,
\* and its inbound socket is closed when the handler is through.
C4_SuccessReplyOnlyAfterEstablished ==
    \A f \in Flow :
        /\ "success" \in wrote[f] =>
              /\ hist[f].est = "success"
              /\ ws[f] # 0 /\ Established(HandlerWs(f))
        /\ "data" \in wrote[f] => "success" \in wrote[f]
        /\ hist[f].est \notin {"none", "success"} =>
              /\ "success" \notin wrote[f] /\ "data" \notin wrote[f]
              /\ ws[f] = 0
              /\ pc[f] \in {"finally", "fin_writer", "exit"}
              /\ pc[f] = "exit" => closing[f]

\* C4: a flow has relayed data behind its success reply, over a tunnel whose
\* handshake succeeded in full.
C4_Witness ==
    \E f \in Flow :
        /\ "success" \in wrote[f] /\ "data" \in wrote[f]
        /\ Established(HandlerWs(f))

\* the handshake frames the client wrote to a tunnel, in order
HandshakeSent(w) == SelectSeq(w.sent, LAMBDA m : m.frame # "data")
HandshakeOrder == <<"client_pub", "auth", "connect">>

\* C5: on every tunnel object (one per attempt) the client's handshake frames
\* are a prefix of client_pub, auth, CONNECT; auth is there only with a 32-byte
\* server_pub received before, CONNECT (naming the target) only with a matching
\* auth response received before; after a failed check nothing more is sent.
C5_HandshakeFrameOrder ==
    \A f \in Flow : \A i \in 1 .. Len(tunnels[f]) :
        LET w == tunnels[f][i]
            hs == HandshakeSent(w)
        IN /\ Len(hs) <= 3
           /\ \A j \in 1 .. Len(hs) : hs[j].frame = HandshakeOrder[j]
           /\ Len(w.sent) > 0 => w.sent[1].frame = "client_pub"
           /\ Len(hs) >= 2 =>
                 /\ Len(w.rcvd) >= 1
                 /\ w.rcvd[1] = ServerFrame("server_pub", <<SERVER_PUB_LEN>>)
                 /\ hs[2] = ClientFrame("auth", Hmac("send_key", "auth"))
           /\ Len(hs) >= 3 =>
                 /\ Len(w.rcvd) >= 2
                 /\ w.rcvd[2] = ServerFrame("auth_response", Hmac("recv_key", "ok"))
                 /\ hs[3] = ClientFrame("connect", Encrypt("send_key", target[f]))
           /\ Len(w.rcvd) <= Len(hs) \/ Len(hs) = 3
           /\ (Len(w.rcvd) >= 1 /\ w.rcvd[1].arg # <<SERVER_PUB_LEN>>) => Len(hs) = 1 /\ w.closed
           /\ (Len(w.rcvd) >= 2 /\ w.rcvd[2].arg # Hmac("recv_key", "ok")) => Len(hs) = 2 /\ w.closed

\* C5: a second attempt has sent all three frames, each after the server frame
\* before it.
C5_Witness ==
    \E f \in Flow :
        /\ Len(tunnels[f]) = 2 /\ pc[f] = "send3"
        /\ Len(HandshakeSent(tunnels[f][2])) = 3 /\ Len(tunnels[f][2].rcvd) = 2

\* establishment of flow f is over (hist[f].est says how it ended)
EstablishmentOver(f) == hist[f].est # "none"
\* the ways establishment ends because of a timeout: a handshake send/receive
\* timeout, a connect/upgrade timeout, the CONNECTION_TIMEOUT budget
TimeoutEnds == {"step_timeout", "wrapped_timeout", "budget"}

\* C6: a flow whose establishment is over has exactly one of
\* success_connections / failed_connections incremented, by one: the success
\* counter iff a tunnel was returned, the failure counter otherwise.
C6_ExactlyOneOutcomeCounter ==
    \A f \in Flow :
        EstablishmentOver(f) =>
            IF hist[f].est = "success"
            THEN hist[f].succ = 1 /\ hist[f].fail = 0
            ELSE hist[f].succ = 0 /\ hist[f].fail = 1

\* C6: establishment that dialed ended with the budget, and neither counter
\* was touched.
C6_Witness ==
    \E f \in Flow :
        /\ hist[f].est = "budget" /\ tunnels[f] # <<>>
        /\ hist[f].succ = 0 /\ hist[f].fail = 0
        /\ success_connections = 0 /\ failed_connections = 0

\* C7: a flow whose establishment ended because of a timeout (of a step or of
\* the budget) has timeout_connections incremented exactly once.
C7_TimeoutCounted ==
    \A f \in Flow :
        hist[f].est \in TimeoutEnds => hist[f].tmo = 1

\* C7: establishment ended with the connect timeout of its last attempt, and
\* timeout_connections was not touched.
C7_Witness ==
    \E f \in Flow :
        /\ hist[f].est = "wrapped_timeout" /\ hist[f].tmo = 0
        /\ timeout_connections = 0 /\ failed_connections = 1

\* C8: an attempt in which a step timed out is the flow's last one: no tunnel
\* object is created (no dial is made) after it.
C8_NoRetryAfterTimeout ==
    \A f \in Flow :
        \A a \in hist[f].timed_out : Len(tunnels[f]) <= a + 1

\* C8: the first attempt timed out in connect or upgrade and a second attempt
\* has dialed.
C8_Witness ==
    \E f \in Flow :
        /\ 0 \in hist[f].timed_out
        /\ Len(tunnels[f]) = 2 /\ tunnels[f][2].writer = "open"

\* C9: under every configuration, a flow whose target is one of the proxy's own
\* listeners never dials (it is refused by the pre-check), and the pre-check
\* refuses no other target.
C9_LoopPreCheckMatchesListeners ==
    \A f \in Flow :
        /\ target[f] \in OwnListeners(current_config) => tunnels[f] = <<>>
        /\ hist[f].est = "loop" => target[f] \in OwnListeners(current_config)

\* C9: a flow dials for a target that is the proxy's own SOCKS listener.
C9_Witness ==
    \E f \in Flow :
        /\ target[f] = TargetOf(LOCALHOST, Str(current_config.socks_port))
        /\ tunnels[f] # <<>> /\ tunnels[f][1].writer = "open"

\* C10: a flow refused by the loop pre-check has failed_connections
\* incremented by one, and nothing but the close reaches its client.
C10_LoopRefusalCounted ==
    \A f \in Flow :
        hist[f].est = "loop" =>
            /\ hist[f].fail = 1
            /\ "success" \notin wrote[f] /\ "data" \notin wrote[f]
            /\ pc[f] = "exit" => closing[f]

\* C10: a flow whose target is the proxy's own SOCKS address was refused and is
\* through, and failed_connections is still 0.
C10_Witness ==
    \E f \in Flow :
        /\ hist[f].est = "loop" /\ pc[f] = "exit" /\ closing[f]
        /\ target[f] = TargetOf(LOCALHOST, Str(current_config.socks_port))
        /\ hist[f].fail = 0 /\ failed_connections = 0

\* one copy loop of flow f has stopped, or the session timer has fired
RelayEnding(f) ==
    /\ pc[f] \in {"relay", "relay_cancelled"}
    /\ down[f] = "done" \/ up[f] = "done" \/ pc[f] = "relay_cancelled"

\* the handler of flow f is through, with both loops stopped and both sides closed
TornDown(f) ==
    /\ pc[f] = "exit" /\ ws[f] # 0
    /\ down[f] = "done" /\ up[f] = "done"
    /\ closing[f] /\ HandlerWs(f).closed /\ HandlerWs(f).writer = "closed"

\* C11: once a copy loop of a relaying flow has stopped or the session timer has
\* fired, the other loop stops as well and the handler gets through its finally
\* block with the inbound socket and the tunnel closed; the handler never
\* leaves the relay with a loop still running.
C11_RelayEndsBothLoops ==
    /\ \A f \in Flow : RelayEnding(f) ~> TornDown(f)
    /\ [](\A f \in Flow : (ws[f] # 0 /\ pc[f] \in {"finally"} \cup Finalizing)
                              => down[f] # "running" /\ up[f] # "running")

\* C11: the tunnel-to-socket loop has stopped while the other still runs.
C11_Witness ==
    \E f \in Flow : pc[f] = "relay" /\ down[f] = "done" /\ up[f] = "running" /\ ~closing[f]

\* p is a prefix of q
IsPrefix(p, q) == Len(p) <= Len(q) /\ SubSeq(q, 1, Len(p)) = p
\* the data frames of a frame log, in order
DataOf(q) == SelectSeq(q, LAMBDA m : m.frame = "data")
\* downstream: the chunks the tunnel's data frames carried, in order of arrival
DownSource(f) ==
    LET q == DataOf(HandlerWs(f).rcvd) IN [i \in 1 .. Len(q) |-> q[i].arg[2]]
\* upstream: the chunks the data frames written to the tunnel decrypt to
UpDelivered(f) ==
    LET q == DataOf(HandlerWs(f).sent) IN [i \in 1 .. Len(q) |-> Decrypt("send_key", q[i].arg)]

C13_HealthCheckTransitions ==
    [][ /\ HealthTick =>
             IF /\ success_connections + failed_connections > 0
                /\ 2 * failed_connections > success_connections + failed_connections
             THEN /\ health_failures' = health_failures + 1
                  /\ degraded_mode' = (degraded_mode \/ health_failures' >= FAILURE_THRESHOLD)
                  /\ health_notice' = "warning" <=> (~degraded_mode /\ degraded_mode')
             ELSE /\ health_failures' = (IF health_failures > 0 THEN health_failures - 1 ELSE 0)
                  /\ degraded_mode' = (degraded_mode /\ health_failures' # 0)
                  /\ health_notice' # "warning"
        /\ degraded_mode' # degraded_mode => HealthTick
        /\ health_failures' >= 0 ]_vars

\* C13: the check that brought health_failures to FAILURE_THRESHOLD has turned
\* degraded_mode on and printed the warning.
C13_Witness ==
    /\ degraded_mode /\ health_notice = "warning"
    /\ health_failures = FAILURE_THRESHOLD

C15_EveryParserReadTimesOut ==
    \A f \in Flow : pc[f] \in AllReads => ENABLED ParseReadTimeout(f)

\* C15: an admitted flow is suspended in a read that has no timeout, holding the
\* only slot while the next flow waits in acquire().
C15_Witness ==
    \E f, g \in Flow :
        /\ pc[f] \in AllReads \ TimedReads
        /\ connection_semaphore = 0
        /\ pc[g] = "acquire"

\* the request header the SOCKS5 handler of flow f read last
SocksHeader(f) == IF kind[f] = "socks5" /\ Len(data[f]) = 3 THEN data[f] ELSE <<5, 1, 1>>

\* C16: a SOCKS5 flow whose request header has a version byte other than 5 is
\* rejected whatever its other bytes are: no tunnel is opened for it and no
\* success reply is written to it.
C16_RequestVersionChecked ==
    \A f \in Flow :
        SocksHeader(f)[1] # 5 => tunnels[f] = <<>> /\ "success" \notin wrote[f]

\* C16: a flow whose request header began with version 4 has its tunnel and its
\* success reply.
C16_Witness ==
    \E f \in Flow :
        /\ SocksHeader(f)[1] = 4
        /\ ws[f] # 0 /\ "success" \in wrote[f]

\* the SOCKS5 handler of flow f returned on the greeting's version / on the
\* request header's command or address type
GreetingRefused(f) == kind[f] = "socks5" /\ Len(data[f]) = 1 /\ data[f][1] # 5
RequestRefused(f) == SocksHeader(f)[2] # 1 \/ SocksHeader(f)[3] \notin {1, 3}

\* C17: a SOCKS5 flow with a greeting version other than 5, a command other
\* than CONNECT or an address type other than 1 and 3 goes straight to the end
\* of its handler: no tunnel is opened, no success reply is written, the
\* inbound socket is closed when the handler is through; the flow refused on
\* its greeting has been written nothing at all, the one refused on its request
\* nothing but the method reply.
C17_MalformedSocksClosedSilently ==
    \A f \in Flow :
        GreetingRefused(f) \/ RequestRefused(f) =>
            /\ tunnels[f] = <<>> /\ ws[f] = 0
            /\ wrote[f] = IF GreetingRefused(f) THEN {} ELSE {"method_reply"}
            /\ pc[f] \in {"finally"} \cup Finalizing
            /\ pc[f] = "exit" => closing[f]

\* C17: the handler of a CONNECT request with address type 4 is through, with
\* only the method reply written.
C17_Witness ==
    \E f \in Flow :
        /\ SocksHeader(f) = <<5, 1, 4>>
        /\ pc[f] = "exit" /\ wrote[f] = {"method_reply"} /\ closing[f]

\* C18: an HTTP flow whose request line does not begin with CONNECT is written
\* the 405 reply and nothing else, never the 200 reply; no tunnel is opened for
\* it; its handler goes to its end, where the inbound socket is closed and the
\* slot is given back.
C18_NonConnectGets405 ==
    \A f \in Flow :
        kind[f] = "http" /\ line[f] \notin {"", "CONNECT"} =>
            /\ wrote[f] = {"405"}
            /\ tunnels[f] = <<>> /\ ws[f] = 0
            /\ pc[f] \in {"http405_drain", "finally"} \cup Finalizing
            /\ pc[f] = "exit" => closing[f] /\ ENABLED ExitHandler(f)

\* C18: the handler of a GET request is through, with the 405 reply written.
C18_Witness ==
    \E f \in Flow :
        /\ kind[f] = "http" /\ line[f] = "GET"
        /\ pc[f] = "exit" /\ wrote[f] = {"405"} /\ closing[f]

\* C20: once a tunnel's closed flag is set, no frame is written to it and no
\* frame is returned from it, whether the send or recv starts afterwards or was
\* suspended when close() ran, and a further close() leaves it as it is.
C20_ClosedTunnelCarriesNothing ==
    [][ \A f \in Flow : \A i \in 1 .. Len(tunnels[f]) :
          (tunnels[f][i].closed /\ Len(tunnels'[f]) >= i) =>
              /\ Len(tunnels'[f][i].sent) <= Len(tunnels[f][i].sent)
              /\ Len(tunnels'[f][i].rcvd) <= Len(tunnels[f][i].rcvd)
              /\ tunnels'[f][i].closed
              /\ tunnels'[f][i].writer = tunnels[f][i].writer ]_vars

\* C20: socket_to_ws has closed the tunnel while ws_to_socket, suspended in
\* recv(), had been woken with a frame in the reader's buffer; its recv() goes
\* on to return that frame.
C20_Witness ==
    \E f \in Flow :
        /\ pc[f] = "relay" /\ up[f] = "done" /\ down[f] = "running"
        /\ HandlerWs(f).closed /\ HandlerWs(f).buffer # <<>>
        /\ ENABLED DownFrame(f, 458752)

\* C19 as stated: recv() fed the bytes send(payload) wrote returns payload and
\* leaves nothing of the frame unread.
C19_FrameRoundTrip ==
    loopback.pc = "done" => loopback.payload = loopback.data /\ loopback.stream = <<>>

\* the bytes that followed the frame's header: what recv() returned, then what
\* it left
AfterHeader == loopback.payload \o loopback.stream

\* C19: the length send() encodes is the length recv() decodes, in each of the
\* three encodings; the bytes after the header are the mask key and the payload
\* XORed with it, so unmasking them gives the payload back; recv(), which
\* neither reads a mask key nor unmasks, returns the first len(payload) of
\* those bytes and leaves the last 4 unread.
C19_LengthRoundTripMaskedPayload ==
    /\ loopback.pc \in {"payload", "done"} => loopback.length = Len(loopback.data)
    /\ loopback.pc = "done" =>
          /\ Len(loopback.payload) = Len(loopback.data)
          /\ Len(loopback.stream) = 4
          /\ SubSeq(AfterHeader, 1, 4) = loopback.mask
          /\ \A i \in 1 .. Len(loopback.data) :
                Xor(AfterHeader[4 + i], loopback.mask[((i - 1) % 4) + 1]) = loopback.data[i]

\* C19: a payload of 126 bytes, the first to take the 2-byte extended length,
\* went through send() and recv(), and what recv() returned is not the payload.
C19_Witness ==
    /\ loopback.pc = "done" /\ Len(loopback.data) = 126
    /\ loopback.payload # loopback.data

\* the tunnels of flow f whose transport is open
OpenTunnels(f) == {i \in 1 .. Len(tunnels[f]) : tunnels[f][i].writer = "open"}

\* C21: a flow makes at most MAX_RETRIES + 1 = 2 establishment attempts; the
\* second is made only when no step of the first timed out, and only once the
\* first attempt's WebSocket is closed, so that a flow never has two tunnels
\* open.
C21_BoundedSequentialAttempts ==
    \A f \in Flow :
        /\ Len(tunnels[f]) <= MAX_RETRIES + 1
        /\ Len(tunnels[f]) = 2 => 0 \notin hist[f].timed_out /\ 1 \notin OpenTunnels(f)
        /\ Cardinality(OpenTunnels(f)) <= 1

\* C21: the first attempt's upgrade timed out, its WebSocket was closed, and the
\* second attempt is through its own upgrade.
C21_Witness ==
    \E f \in Flow :
        /\ Len(tunnels[f]) = 2 /\ 0 \in hist[f].timed_out
        /\ tunnels[f][1].closed /\ tunnels[f][1].writer = "closed"
        /\ OpenTunnels(f) = {2} /\ pc[f] = "send1"

\* C22: the downstream loop goes into a drain only after a write that left the
\* inbound write buffer above DRAIN_THRESHOLD x WRITE_BUFFER_SIZE (458752
\* bytes); a drain that times out adds exactly one to buffer_overflows, leaves
\* drain_operations alone and puts the loop back at its receive; a drain that
\* completes adds exactly one to drain_operations and leaves buffer_overflows
\* alone; nothing else changes the two statistics.
C22_DrainAccounting ==
    /\ [](\A f \in Flow : \A size \in BufferSizes :
            size <= 458752 => ~ENABLED (DownFrame(f, size) /\ down'[f] = "draining"))
    /\ [][ /\ \A f \in Flow :
                /\ DownDrainTimeout(f) =>
                      /\ video_stream_stats'.buffer_overflows =
                            video_stream_stats.buffer_overflows + 1
                      /\ video_stream_stats'.drain_operations =
                            video_stream_stats.drain_operations
                      /\ pc'[f] = "relay" /\ down'[f] = "running"
                /\ DownDrained(f) =>
                      /\ video_stream_stats'.drain_operations =
                            video_stream_stats.drain_operations + 1
                      /\ video_stream_stats'.buffer_overflows =
                            video_stream_stats.buffer_overflows
                      /\ pc'[f] = "relay" /\ down'[f] = "running"
           /\ video_stream_stats' # video_stream_stats =>
                 \E f \in Flow : down[f] = "draining" /\ down'[f] = "running" ]_vars

\* C22: the drain after the first chunk timed out and was counted as an
\* overflow only; the loop went on, and the next frame is about to be written.
C22_Witness ==
    \E f \in Flow :
        /\ video_stream_stats = [buffer_overflows |-> 1, drain_operations |-> 0]
        /\ pc[f] = "relay" /\ down[f] = "running" /\ to_client[f] = <<1>>
        /\ HandlerWs(f).buffer # <<>>
        /\ ENABLED DownFrame(f, 458752)

\* the data frames ws_to_socket of flow f got from recv(), in order
DownReceived(f) == DataOf(HandlerWs(f).rcvd)
\* those of them that decrypt does not accept under recv_key
BadFrames(f) ==
    {i \in 1 .. Len(DownReceived(f)) : ~Decrypts("recv_key", DownReceived(f)[i].arg)}

\* C23: when a frame received in the downstream loop does not decrypt, nothing
\* of it and nothing of a later frame is written to the inbound socket (no
\* later frame is even received), the downstream loop is over, and the flow
\* goes on to be torn down; every chunk the inbound client was written is the
\* plaintext of a frame that decrypted, in order.
C23_DecryptFailureEndsDownstream ==
    /\ [](\A f \in Flow : ws[f] # 0 =>
            /\ \A i \in BadFrames(f) :
                  /\ i = Len(DownReceived(f))
                  /\ Len(to_client[f]) = i - 1
                  /\ down[f] \in {"failed", "done"}
            /\ Len(to_client[f]) <= Len(DownReceived(f))
            /\ \A j \in 1 .. Len(to_client[f]) :
                  /\ j \notin BadFrames(f)
                  /\ to_client[f][j] = Decrypt("recv_key", DownReceived(f)[j].arg)
            /\ wrote[f] \subseteq {"method_reply", "success", "data"})
    /\ \A f \in Flow : (ws[f] # 0 /\ down[f] = "failed") ~> TornDown(f)

\* C23: the second downstream frame did not decrypt; the client was written the
\* first chunk only and the flow is torn down.
C23_Witness ==
    \E f \in Flow :
        /\ TornDown(f) /\ BadFrames(f) = {2}
        /\ to_client[f] = <<1>>

=============================================================================
